---- MODULE Spec2Model ----
(***************************************************************************)
(* Model of consensus/blocks.go: the block tree, the orphan pool, header   *)
(* validation, difficulty and weight, the ledger mutator, the reorg        *)
(* controller and AcceptBlock.                                             *)
(*                                                                         *)
(* Block ids are the indices of BlockTable (a block's id is the hash of    *)
(* its header, so an id names one block); the genesis block has id 0.      *)
(* Targets are positive integers, a rational a/b is compared by cross      *)
(* multiplication.  An output's contents are a function of its id, so the  *)
(* ledger is the set of unspent output ids.                                *)
(***************************************************************************)
EXTENDS Integers, Sequences, FiniteSets, TLC

\* ---------------------------------------------------------------- bounds
MaxTime == 2
MaxOrphans == 1
MaxPending == 1

\* ------------------------------------------------------------- constants
\* Only SurpassThreshold is declared in blocks.go; the other constants of the
\* package are scaled: targets are numbers up to MaxTarget, times are small,
\* and the adjustment bounds are a pair of reciprocal rationals around 1.
MedianTimestampWindow == 11
FutureThreshold == 2
TargetWindow == 2
BlockFrequency == 1
MaxAdjustmentUpNum == 21
MaxAdjustmentUpDen == 20
MaxAdjustmentDownNum == 20
MaxAdjustmentDownDen == 21
BlockSizeLimit == 10
\* big.NewRat(5, 100) is kept in lowest terms
SurpassThresholdNum == 1
SurpassThresholdDen == 20
MaxTarget == 10000
RootTarget == 1980
RootDepth == MaxTarget
GenesisID == 0
GenesisTimestamp == 1
NoBlock == -1

\* ------------------------------------------------------------ the inputs
\* Transactions: each spends one output and creates the output <<"out", t>>.
TxTable == <<
  [in |-> <<"sub", 0>>],      \* 1: spends the genesis subsidy
  [in |-> <<"sub", 0>>],      \* 2: spends the genesis subsidy too
  [in |-> <<"sub", 1>>],      \* 3: spends the subsidy of block 1
  [in |-> <<"out", 2>>] >>    \* 4: spends the output of transaction 2

\* Blocks: parent id, timestamp, transactions, the id as a number (compared
\* with the parent's target), whether the merkle root matches, encoded size.
BlockTable == <<
  [parent |-> 0, ts |-> 2, txs |-> <<1>>,    hash |-> 1,    merkleOK |-> TRUE,  size |-> 1],   \* 1
  [parent |-> 1, ts |-> 3, txs |-> <<3>>,    hash |-> 1,    merkleOK |-> TRUE,  size |-> 1],   \* 2
  [parent |-> 0, ts |-> 1, txs |-> <<2>>,    hash |-> 1,    merkleOK |-> TRUE,  size |-> 1],   \* 3
  [parent |-> 3, ts |-> 2, txs |-> <<4, 3>>, hash |-> 1,    merkleOK |-> TRUE,  size |-> 1],   \* 4
  [parent |-> 4, ts |-> 3, txs |-> <<>>,     hash |-> 1,    merkleOK |-> TRUE,  size |-> 1],   \* 5
  [parent |-> 3, ts |-> 3, txs |-> <<4>>,    hash |-> 1,    merkleOK |-> TRUE,  size |-> 1],   \* 6
  [parent |-> 6, ts |-> 3, txs |-> <<>>,     hash |-> 1,    merkleOK |-> TRUE,  size |-> 1],   \* 7
  [parent |-> 2, ts |-> 0, txs |-> <<>>,     hash |-> 1,    merkleOK |-> TRUE,  size |-> 1],   \* 8
  [parent |-> 6, ts |-> 3, txs |-> <<>>,     hash |-> 1,    merkleOK |-> FALSE, size |-> 1],   \* 9
  [parent |-> 2, ts |-> 3, txs |-> <<>>,     hash |-> 9000, merkleOK |-> TRUE,  size |-> 1],   \* 10
  [parent |-> 6, ts |-> 3, txs |-> <<>>,     hash |-> 1,    merkleOK |-> TRUE,  size |-> 11],  \* 11
  [parent |-> 7, ts |-> 4, txs |-> <<>>,     hash |-> 1,    merkleOK |-> TRUE,  size |-> 1] >> \* 12

BlockIDs == 1..Len(BlockTable)

\* The blocks that callers may submit before their parent is in the tree.
OrphanInputs == {5, 7, 11}

GenesisBlock ==
  [parent |-> NoBlock, ts |-> GenesisTimestamp, txs |-> <<>>, hash |-> 1,
   merkleOK |-> TRUE, size |-> 1]

\* The block with id b (Block.ID is injective).
Block(b) == IF b = GenesisID THEN GenesisBlock ELSE BlockTable[b]

SubsidyID(b) == <<"sub", b>>
OutputID(t) == <<"out", t>>

Min(a, b) == IF a < b THEN a ELSE b
Max(a, b) == IF a > b THEN a ELSE b

\* RatToTarget: the integer part of num/den, kept inside [1, MaxTarget].
RatToTarget(num, den) ==
  IF num <= 0 THEN 1 ELSE Max(1, Min(MaxTarget, num \div den))

\* ------------------------------------------------------ accessors of State
\* A State value is a record with the fields blockMap, badBlocks,
\* missingParents, currentBlockID, currentPath and unspentOutputs.
currentBlockNode(s) == s.blockMap[s.currentBlockID]
Height(s) == currentBlockNode(s).Height
Depth(s) == currentBlockNode(s).Depth

\* map operations
MapSet(m, k, v) == [x \in DOMAIN m \cup {k} |-> IF x = k THEN v ELSE m[x]]
MapDelete(m, k) == [x \in DOMAIN m \ {k} |-> m[x]]

\* -------------------------------------------------- earliestChildTimestamp
\* Element MedianTimestampWindow/2 (counting from 0) of the sorted window.
earliestChildTimestamp(bn) ==
  LET w == bn.RecentTimestamps
      k == MedianTimestampWindow \div 2
  IN  CHOOSE v \in {w[i] : i \in DOMAIN w} :
        /\ Cardinality({i \in DOMAIN w : w[i] < v}) <= k
        /\ Cardinality({i \in DOMAIN w : w[i] <= v}) > k

\* ------------------------------------------------------- handleOrphanBlock
\* A variant that does not look for the block in the parent's entry.
handleOrphanBlockForgets(s, b) ==
  [s |-> [s EXCEPT !.missingParents =
            MapSet(@, Block(b).parent,
                   (IF Block(b).parent \in DOMAIN @ THEN @[Block(b).parent] ELSE {})
                     \cup {b})],
   err |-> "UnknownOrphanErr"]

\* A variant that replaces the parent's entry instead of adding to it.
handleOrphanBlockReplaces(s, b) ==
  LET p == Block(b).parent IN
  IF p \in DOMAIN s.missingParents /\ b \in s.missingParents[p]
  THEN [s |-> s, err |-> "KnownOrphanErr"]
  ELSE [s |-> [s EXCEPT !.missingParents = MapSet(@, p, {b})],
        err |-> "UnknownOrphanErr"]

handleOrphanBlock(s, b) ==
  LET p == Block(b).parent IN
  IF p \notin DOMAIN s.missingParents
  THEN [s |-> [s EXCEPT !.missingParents = MapSet(@, p, {b})],
        err |-> "UnknownOrphanErr"]
  ELSE IF b \in s.missingParents[p]
  THEN [s |-> s, err |-> "KnownOrphanErr"]
  ELSE [s |-> [s EXCEPT !.missingParents[p] = @ \cup {b}],
        err |-> "UnknownOrphanErr"]

\* ------------------------------------------------------------ checkDestiny
checkDestiny(s, b) ==
  IF b \in s.badBlocks THEN [s |-> s, err |-> "block is known to be invalid"]
  ELSE IF b \in DOMAIN s.blockMap THEN [s |-> s, err |-> "BlockKnownErr"]
  ELSE IF Block(b).parent \notin DOMAIN s.blockMap THEN handleOrphanBlock(s, b)
  ELSE [s |-> s, err |-> "nil"]

\* ---------------------------------------------------------- validateHeader
\* spawn tells whether the goroutine that retries the block was started.
CheckTarget(b, target) == Block(b).hash <= target

\* A variant without the check of the timestamp against the parent's median.
validateHeaderAnyPast(s, parent, b, clock) ==
  LET skew == Block(b).ts - clock IN
  IF ~CheckTarget(b, parent.Target)
  THEN [s |-> s, err |-> "block does not meet target", spawn |-> FALSE]
  ELSE IF skew > FutureThreshold
  THEN [s |-> s, err |-> "FutureBlockErr", spawn |-> TRUE]
  ELSE IF ~Block(b).merkleOK
  THEN [s |-> [s EXCEPT !.badBlocks = @ \cup {b}],
        err |-> "merkle root does not match transactions sent.", spawn |-> FALSE]
  ELSE [s |-> s, err |-> "nil", spawn |-> FALSE]

validateHeader(s, parent, b, clock) ==
  LET skew == Block(b).ts - clock IN
  IF ~CheckTarget(b, parent.Target)
  THEN [s |-> s, err |-> "block does not meet target", spawn |-> FALSE]
  ELSE IF skew > FutureThreshold
  THEN [s |-> s, err |-> "FutureBlockErr", spawn |-> TRUE]
  ELSE IF earliestChildTimestamp(parent) > Block(b).ts
  THEN [s |-> [s EXCEPT !.badBlocks = @ \cup {b}],
        err |-> "timestamp invalid for being in the past", spawn |-> FALSE]
  ELSE IF ~Block(b).merkleOK
  THEN [s |-> [s EXCEPT !.badBlocks = @ \cup {b}],
        err |-> "merkle root does not match transactions sent.", spawn |-> FALSE]
  ELSE [s |-> s, err |-> "nil", spawn |-> FALSE]

\* ------------------------------------------------------------- childTarget
\* BlockAtHeight reads currentPath; childTarget panics when it fails.
BlockAtHeightFails(s, h) == h \notin DOMAIN s.currentPath
BlockAtHeight(s, h) == Block(s.currentPath[h])

childTargetPanics(s, height) ==
  height >= TargetWindow /\ BlockAtHeightFails(s, height - TargetWindow)

childTarget(s, parentNode, height, ts) ==
  LET timePassed == IF height < TargetWindow
                    THEN ts - Block(GenesisID).ts
                    ELSE ts - BlockAtHeight(s, height - TargetWindow).ts
      expectedTimePassed == IF height < TargetWindow
                            THEN BlockFrequency * height
                            ELSE BlockFrequency * TargetWindow
      up == timePassed * MaxAdjustmentUpDen > MaxAdjustmentUpNum * expectedTimePassed
      down == timePassed * MaxAdjustmentDownDen < MaxAdjustmentDownNum * expectedTimePassed
      num == IF up THEN MaxAdjustmentUpNum ELSE IF down THEN MaxAdjustmentDownNum ELSE timePassed
      den == IF up THEN MaxAdjustmentUpDen ELSE IF down THEN MaxAdjustmentDownDen ELSE expectedTimePassed
  IN  RatToTarget(parentNode.Target * num, den)

\* -------------------------------------------------------------- childDepth
\* A variant that gives the child the depth of its parent.
childDepthOfParent(parentNode) == parentNode.Depth

\* (1/parentTarget + 1/parentDepth)^-1
childDepth(parentNode) ==
  RatToTarget(parentNode.Target * parentNode.Depth, parentNode.Target + parentNode.Depth)

\* ---------------------------------------------------------- addBlockToTree
NoDiff == [CatalystBlock |-> NoBlock, OutputDiffs |-> <<>>]

addBlockToTree(s, p, b) ==
  LET parentNode == s.blockMap[p]
      height == parentNode.Height + 1
      newNode == [Height |-> height,
                  RecentTimestamps |-> Tail(parentNode.RecentTimestamps) \o <<Block(b).ts>>,
                  Target |-> childTarget(s, parentNode, height, Block(b).ts),
                  Depth |-> childDepth(parentNode),
                  Children |-> <<>>,
                  BlockDiff |-> NoDiff]
  IN  [s EXCEPT !.blockMap =
         MapSet([@ EXCEPT ![p].Children = Append(@, b)], b, newNode)]

\* ------------------------------------------------------------- heavierFork
\* 1/newDepth > 1/curDepth + (1/curTarget) * SurpassThreshold
\* A variant that takes the larger depth for the heavier chain.
heavierForkByDepth(newDepth, curDepth, curTarget) ==
  SurpassThresholdDen * newDepth * curTarget
    > curDepth * (SurpassThresholdDen * curTarget + SurpassThresholdNum * newDepth)

heavierForkMetrics(newDepth, curDepth, curTarget) ==
  SurpassThresholdDen * curDepth * curTarget
    > newDepth * (SurpassThresholdDen * curTarget + SurpassThresholdNum * curDepth)

heavierFork(s, n) ==
  heavierForkMetrics(s.blockMap[n].Depth, Depth(s), currentBlockNode(s).Target)

\* ----------------------------------------------------- transaction layer
\* ValidTransaction, applyTransaction and invertTransaction, by their
\* contracts: a transaction is valid iff the output it spends is unspent;
\* applying it spends that output and creates its own; inverting undoes it.
ValidTransaction(s, t) == TxTable[t].in \in s.unspentOutputs

applyTransaction(s, t) ==
  [s |-> [s EXCEPT !.unspentOutputs = (@ \ {TxTable[t].in}) \cup {OutputID(t)}],
   diffs |-> << [New |-> FALSE, ID |-> TxTable[t].in],
                [New |-> TRUE,  ID |-> OutputID(t)] >>]

invertTransaction(s, t) ==
  [s |-> [s EXCEPT !.unspentOutputs = (@ \ {OutputID(t)}) \cup {TxTable[t].in}],
   diffs |-> << [New |-> FALSE, ID |-> OutputID(t)],
                [New |-> TRUE,  ID |-> TxTable[t].in] >>]

\* invertTransaction over txs[i], ..., txs[1]; r is the result so far
RECURSIVE invertTransactions(_, _, _)
invertTransactions(r, txs, i) ==
  IF i = 0 THEN r
  ELSE invertTransactions(
         [s |-> invertTransaction(r.s, txs[i]).s,
          diffs |-> r.diffs \o invertTransaction(r.s, txs[i]).diffs], txs, i - 1)

\* ------------------------------------------------------- invertRecentBlock
\* A variant that deletes the entry below the one of the removed block.
invertRecentBlockPathBelow(s, r) ==
  [s |-> [r.s EXCEPT !.currentPath = MapDelete(@, Height(s) - 1),
                     !.currentBlockID = Block(s.currentBlockID).parent],
   diffs |-> r.diffs]

\* The end of invertRecentBlock: currentPath and currentBlockID.
invertRecentBlockPath(s, r) ==
  [s |-> [r.s EXCEPT !.currentPath = MapDelete(@, Height(s)),
                     !.currentBlockID = Block(s.currentBlockID).parent],
   diffs |-> r.diffs]

\* Output(subsidyID) fails, and the function panics, if the subsidy is spent.
invertRecentBlock(s) ==
  invertRecentBlockPath(s,
    invertTransactions(
      [s |-> [s EXCEPT !.unspentOutputs = @ \ {SubsidyID(s.currentBlockID)},
                       !.panicked = @ \/ SubsidyID(s.currentBlockID) \notin s.unspentOutputs],
       diffs |-> <<[New |-> FALSE, ID |-> SubsidyID(s.currentBlockID)]>>],
      Block(s.currentBlockID).txs, Len(Block(s.currentBlockID).txs)))

\* ---------------------------------------------------------- integrateBlock
\* The loop over b.Transactions from index i on; a is the result so far,
\* a.applied the number of transactions applied.
RECURSIVE applyTransactions(_, _, _)
applyTransactions(a, txs, i) ==
  IF i > Len(txs) THEN a
  ELSE IF ~ValidTransaction(a.s, txs[i])
  THEN [a EXCEPT !.err = "invalid transaction"]
  ELSE applyTransactions(
         [s |-> applyTransaction(a.s, txs[i]).s, applied |-> i,
          diffs |-> a.diffs \o applyTransaction(a.s, txs[i]).diffs, err |-> "nil"],
         txs, i + 1)

\* A variant that leaves the applied transactions in place on an error.
integrateBlockEndNoRewind(s, b, a) ==
  IF a.err # "nil"
  THEN [s |-> a.s, diffs |-> a.diffs, err |-> a.err,
        bd |-> [CatalystBlock |-> b, OutputDiffs |-> <<>>]]
  ELSE [s |-> [a.s EXCEPT !.currentBlockID = b,
                          !.currentPath = MapSet(@, s.blockMap[b].Height, b),
                          !.unspentOutputs = @ \cup {SubsidyID(b)}],
        diffs |-> Append(a.diffs, [New |-> TRUE, ID |-> SubsidyID(b)]),
        err |-> "nil",
        bd |-> [CatalystBlock |-> b,
                OutputDiffs |-> Append(a.diffs, [New |-> TRUE, ID |-> SubsidyID(b)])]]

\* integrateBlock after the loop: the rewind of the applied transactions on
\* an error, else the path update and the subsidy output.
integrateBlockEnd(s, b, a) ==
  IF a.err # "nil"
  THEN [s |-> invertTransactions([s |-> a.s, diffs |-> <<>>], Block(b).txs, a.applied).s,
        diffs |-> a.diffs, err |-> a.err,
        bd |-> [CatalystBlock |-> b, OutputDiffs |-> <<>>]]
  ELSE [s |-> [a.s EXCEPT !.currentBlockID = b,
                          !.currentPath = MapSet(@, s.blockMap[b].Height, b),
                          !.unspentOutputs = @ \cup {SubsidyID(b)}],
        diffs |-> Append(a.diffs, [New |-> TRUE, ID |-> SubsidyID(b)]),
        err |-> "nil",
        bd |-> [CatalystBlock |-> b,
                OutputDiffs |-> Append(a.diffs, [New |-> TRUE, ID |-> SubsidyID(b)])]]

integrateBlock(s, b) ==
  integrateBlockEnd(s, b,
    applyTransactions([s |-> s, applied |-> 0, diffs |-> <<>>, err |-> "nil"],
                      Block(b).txs, 1))

\* ---------------------------------------------------------- invalidateNode
\* Children holds node pointers, so the recursion also visits children that
\* are no longer in blockMap; such a child was invalidated with its whole
\* subtree, and only its id is recorded again.
RECURSIVE invalidateNode(_, _)
RECURSIVE invalidateChildren(_, _, _)
invalidateChildren(s, children, i) ==
  IF i > Len(children) THEN s
  ELSE invalidateChildren(invalidateNode(s, children[i]), children, i + 1)

NodeChildren(s, n) ==
  IF n \in DOMAIN s.blockMap THEN s.blockMap[n].Children ELSE <<>>

\* A variant that leaves the node in blockMap.
invalidateNodeKept(s, n) ==
  [s EXCEPT !.badBlocks = @ \cup {n}]

invalidateNodeSelf(s, n) ==
  [s EXCEPT !.blockMap = MapDelete(@, n), !.badBlocks = @ \cup {n}]

\* A variant that leaves the children of the node alone.
invalidateNodeAlone(s, n) == invalidateNodeSelf(s, n)

invalidateNode(s, n) ==
  invalidateNodeSelf(invalidateChildren(s, NodeChildren(s, n), 1), n)

\* ---------------------------------------------------------- forkBlockchain
\* currentPath read with Go's map semantics: a missing key reads as no block.
PathAt(s, h) == IF h \in DOMAIN s.currentPath THEN s.currentPath[h] ELSE NoBlock

\* The walk from newNode up to the first node on currentPath.
RECURSIVE commonParent(_, _, _)
commonParent(s, n, parentHistory) ==
  IF PathAt(s, s.blockMap[n].Height) = n
  THEN [node |-> n, parentHistory |-> parentHistory]
  ELSE commonParent(s, Block(n).parent, Append(parentHistory, n))

\* The loop that removes blocks until currentBlockID is the common parent.
\* acc carries rewoundBlocks, appliedBlocks, outputDiffs, the ConsensusChange
\* being built (InvertedBlocks, AppliedBlocks) and validatedBlocks.
RECURSIVE rewindTo(_, _, _)
\* A variant that puts the rewound block in front of rewoundBlocks.
rewindStepInFront(s, acc, r) ==
  [acc EXCEPT !.s = r.s,
              !.rewoundBlocks = <<s.currentBlockID>> \o @,
              !.InvertedBlocks = Append(@, currentBlockNode(s).BlockDiff),
              !.outputDiffs = @ \o r.diffs]

rewindStep(s, acc, r) ==
  [acc EXCEPT !.s = r.s,
              !.rewoundBlocks = Append(@, s.currentBlockID),
              !.InvertedBlocks = Append(@, currentBlockNode(s).BlockDiff),
              !.outputDiffs = @ \o r.diffs]

rewindTo(s, node, acc) ==
  IF s.currentBlockID = node THEN [acc EXCEPT !.s = s]
  ELSE rewindTo(invertRecentBlock(s).s, node, rewindStep(s, acc, invertRecentBlock(s)))

\* invertRecentBlock, n times
RECURSIVE rewindValidated(_, _)
rewindValidated(s, n) ==
  IF n = 0 THEN s ELSE rewindValidated(invertRecentBlock(s).s, n - 1)

\* A variant that integrates none of the rewound blocks again.
reintegrateNothing(s, rewoundBlocks, i) == s

\* integrateBlock of rewoundBlocks[i], ..., rewoundBlocks[1]; a failure panics
RECURSIVE reintegrate(_, _, _)
reintegrateStep(r, rewoundBlocks, i) ==
  IF r.err # "nil" THEN [r.s EXCEPT !.panicked = TRUE]
  ELSE reintegrate(r.s, rewoundBlocks, i - 1)

reintegrate(s, rewoundBlocks, i) ==
  IF i = 0 THEN s
  ELSE reintegrateStep(integrateBlock(s, rewoundBlocks[i]), rewoundBlocks, i)

\* The branch taken when integrateBlock fails on block b.
forkFailure(s, b, acc) ==
  [acc EXCEPT
     !.s = reintegrate(rewindValidated(invalidateNode(s, b), acc.validatedBlocks),
                       acc.rewoundBlocks, Len(acc.rewoundBlocks)),
     !.appliedBlocks = <<>>, !.rewoundBlocks = <<>>, !.outputDiffs = <<>>,
     !.failed = TRUE]

\* The loop over parentHistory[i], ..., parentHistory[1]; r is the result of
\* integrateBlock on parentHistory[i].
RECURSIVE validateHistory(_, _, _, _)
validateStep(parentHistory, i, acc, r) ==
  IF r.err # "nil"
  THEN forkFailure(r.s, parentHistory[i], acc)
  ELSE validateHistory(
         [r.s EXCEPT !.blockMap[parentHistory[i]].BlockDiff = r.bd],
         parentHistory, i - 1,
         [acc EXCEPT !.appliedBlocks = Append(@, parentHistory[i]),
                     !.AppliedBlocks = Append(@, r.bd),
                     !.validatedBlocks = @ + 1,
                     !.outputDiffs = @ \o r.diffs])

validateHistory(s, parentHistory, i, acc) ==
  IF i = 0 THEN [acc EXCEPT !.s = s]
  ELSE validateStep(parentHistory, i, acc, integrateBlock(s, parentHistory[i]))

\* The end of forkBlockchain: subscribers are notified if appliedBlocks is
\* not nil.  The err declared inside the loop (diffSet, err := ...) is not
\* the function's result err, which is never assigned.
forkReturn(v) ==
  [s |-> v.s, rewoundBlocks |-> v.rewoundBlocks,
   appliedBlocks |-> v.appliedBlocks, outputDiffs |-> v.outputDiffs,
   err |-> "nil",
   notified |-> IF v.appliedBlocks # <<>>
                THEN <<[InvertedBlocks |-> v.InvertedBlocks,
                        AppliedBlocks |-> v.AppliedBlocks]>>
                ELSE <<>>,
   failed |-> v.failed]

forkValidate(c, rw) ==
  forkReturn(validateHistory(rw.s, c.parentHistory, Len(c.parentHistory), rw))

forkRewind(s, c) ==
  forkValidate(c, rewindTo(s, c.node,
    [s |-> s, rewoundBlocks |-> <<>>, appliedBlocks |-> <<>>,
     outputDiffs |-> <<>>, InvertedBlocks |-> <<>>, AppliedBlocks |-> <<>>,
     validatedBlocks |-> 0, failed |-> FALSE]))

forkBlockchain(s, newNode) == forkRewind(s, commonParent(s, newNode, <<>>))

\* -------------------------------------------------------------- AcceptBlock
EmptyChange == [InvertedBlocks |-> <<>>, AppliedBlocks |-> <<>>]

Return(s, err, spawn) ==
  [s |-> s, rewoundBlocks |-> <<>>, appliedBlocks |-> <<>>, outputDiffs |-> <<>>,
   err |-> err, notified |-> <<>>, spawn |-> spawn, forked |-> FALSE,
   failed |-> FALSE]

\* After forkBlockchain returned f: an error returns at once, otherwise the
\* subscribers are notified of an empty ConsensusChange.
AcceptBlockForked(f) ==
  [s |-> f.s, rewoundBlocks |-> f.rewoundBlocks, appliedBlocks |-> f.appliedBlocks,
   outputDiffs |-> f.outputDiffs, err |-> f.err,
   notified |-> IF f.err # "nil" THEN f.notified ELSE Append(f.notified, EmptyChange),
   spawn |-> FALSE, forked |-> TRUE, failed |-> f.failed]

\* A variant that forks whenever a node was inserted.
AcceptBlockInsertedAlways(t, b) == AcceptBlockForked(forkBlockchain(t, b))

\* After addBlockToTree gave the state t.
AcceptBlockInserted(t, b) ==
  IF heavierFork(t, b)
  THEN AcceptBlockForked(forkBlockchain(t, b))
  ELSE [Return(t, "nil", FALSE) EXCEPT !.notified = <<EmptyChange>>]

\* A variant that marks a block that is too large as bad.
AcceptBlockSizedMarks(h, b) ==
  IF h.err = "nil" /\ Block(b).size > BlockSizeLimit
  THEN [s |-> [h.s EXCEPT !.badBlocks = @ \cup {b}],
        err |-> "Block is too large, will not be accepted.", spawn |-> FALSE]
  ELSE h

\* The size check that follows validateHeader's result h.
AcceptBlockSized(h, b) ==
  IF h.err = "nil" /\ Block(b).size > BlockSizeLimit
  THEN [s |-> h.s, err |-> "Block is too large, will not be accepted.",
        spawn |-> FALSE]
  ELSE h

\* After checkDestiny returned d: validateHeader and the size check.
AcceptBlockDestined(d, b, clock) ==
  IF d.err # "nil" THEN [s |-> d.s, err |-> d.err, spawn |-> FALSE]
  ELSE AcceptBlockSized(
         validateHeader(d.s, d.s.blockMap[Block(b).parent], b, clock), b)

\* AcceptBlock up to the size check: the state, the error, and whether the
\* retrying goroutine was started.
AcceptBlockChecks(s, b, clock) ==
  AcceptBlockDestined(checkDestiny(s, b), b, clock)

\* addBlockToTree as AcceptBlock calls it; childTarget may panic.
AcceptBlockInsert(s, b) ==
  IF childTargetPanics(s, s.blockMap[Block(b).parent].Height + 1)
  THEN [s EXCEPT !.panicked = TRUE]
  ELSE addBlockToTree(s, Block(b).parent, b)

\* After the checks returned c.
AcceptBlockChecked(c, b) ==
  IF c.err # "nil" THEN Return(c.s, c.err, c.spawn)
  ELSE IF childTargetPanics(c.s, c.s.blockMap[Block(b).parent].Height + 1)
  THEN Return(AcceptBlockInsert(c.s, b), "panic", FALSE)
  ELSE AcceptBlockInserted(AcceptBlockInsert(c.s, b), b)

AcceptBlock(s, b, clock) == AcceptBlockChecked(AcceptBlockChecks(s, b, clock), b)

\* ------------------------------------------------------------------ state
\* The fields of State, the clock, the sleeping retries, the results of the
\* last call that returned; lock is the holder of State's mutex and calls the
\* position of each thread inside AcceptBlock.
VARIABLES blockMap, badBlocks, missingParents, currentBlockID, currentPath,
          unspentOutputs, panicked, now, pending, ret, lock, calls

vars == <<blockMap, badBlocks, missingParents, currentBlockID, currentPath,
          unspentOutputs, panicked, now, pending, ret, lock, calls>>

\* The callers lock State around AcceptBlock; the goroutine of validateHeader
\* calls it with no lock.
Callers == {"callerA", "callerB"}
Threads == Callers \cup {"goroutine"}
Idle == [pc |-> "idle", b |-> NoBlock]

\* The State value held by the variables.
State ==
  [blockMap |-> blockMap, badBlocks |-> badBlocks,
   missingParents |-> missingParents, currentBlockID |-> currentBlockID,
   currentPath |-> currentPath, unspentOutputs |-> unspentOutputs,
   panicked |-> panicked]

SetState(s) ==
  /\ blockMap' = s.blockMap
  /\ badBlocks' = s.badBlocks
  /\ missingParents' = s.missingParents
  /\ currentBlockID' = s.currentBlockID
  /\ currentPath' = s.currentPath
  /\ unspentOutputs' = s.unspentOutputs
  /\ panicked' = s.panicked

\* The genesis node: its window holds its own timestamp repeated.
GenesisNode ==
  [Height |-> 0,
   RecentTimestamps |-> [i \in 1..MedianTimestampWindow |-> GenesisTimestamp],
   Target |-> RootTarget, Depth |-> RootDepth, Children |-> <<>>,
   BlockDiff |-> NoDiff]

NoCall ==
  [err |-> "none", rewoundBlocks |-> <<>>,
   appliedBlocks |-> <<>>, outputDiffs |-> <<>>, notified |-> <<>>,
   spawn |-> FALSE, forked |-> FALSE, failed |-> FALSE]

Init ==
  /\ blockMap = (GenesisID :> GenesisNode)
  /\ badBlocks = {}
  /\ missingParents = << >>
  /\ currentBlockID = GenesisID
  /\ currentPath = (0 :> GenesisID)
  /\ unspentOutputs = {SubsidyID(GenesisID)}
  /\ panicked = FALSE
  /\ now = GenesisTimestamp
  /\ pending = [b \in BlockIDs |-> 0]
  /\ ret = NoCall
  /\ lock = "none"
  /\ calls = [t \in Threads |-> Idle]

\* The orphans staged in missingParents, and the sleeping retries.
StagedOrphans(mp) == UNION {mp[p] : p \in DOMAIN mp}

RECURSIVE SumOver(_, _)
SumOver(f, S) ==
  IF S = {} THEN 0 ELSE LET x == CHOOSE x \in S : TRUE IN f[x] + SumOver(f, S \ {x})

\* What a call leaves in ret: the call's results.
Outcome(r) ==
  [err |-> r.err, rewoundBlocks |-> r.rewoundBlocks,
   appliedBlocks |-> r.appliedBlocks, outputDiffs |-> r.outputDiffs,
   notified |-> r.notified, spawn |-> r.spawn, forked |-> r.forked,
   failed |-> r.failed]

\* The state change of a call that returned r.
Returned(r) ==
  /\ SetState(r.s)
  /\ ret' = Outcome(r)

\* A caller submits block b and AcceptBlock runs to its end with no other
\* call in between; r is what AcceptBlock returns.
SubmitReturned(b, r) ==
  /\ Cardinality(StagedOrphans(r.s.missingParents)) <= MaxOrphans
  /\ r.spawn => SumOver(pending, BlockIDs) < MaxPending
  /\ Returned(r)
  /\ pending' = IF r.spawn THEN [pending EXCEPT ![b] = @ + 1] ELSE pending

Submit(b) ==
  /\ ~panicked
  /\ Block(b).parent \notin DOMAIN blockMap => b \in OrphanInputs
  /\ SubmitReturned(b, AcceptBlock(State, b, now))
  /\ UNCHANGED <<now, lock, calls>>

\* A variant in which the goroutine wakes up and ends without the call.
RetrySleeps(b) ==
  /\ ~panicked
  /\ pending[b] > 0
  /\ now >= Block(b).ts - FutureThreshold
  /\ pending' = [pending EXCEPT ![b] = @ - 1]
  /\ UNCHANGED <<blockMap, badBlocks, missingParents, currentBlockID,
                 currentPath, unspentOutputs, panicked, now, ret, lock, calls>>

\* The goroutine started by validateHeader wakes up and calls AcceptBlock.
RetryReturned(b, r) ==
  /\ Returned(r)
  /\ pending' = [pending EXCEPT ![b] = @ - 1 + (IF r.spawn THEN 1 ELSE 0)]

Retry(b) ==
  /\ ~panicked
  /\ pending[b] > 0
  /\ now >= Block(b).ts - FutureThreshold
  /\ RetryReturned(b, AcceptBlock(State, b, now))
  /\ UNCHANGED <<now, lock, calls>>

\* Time passes.
Tick ==
  /\ now < MaxTime
  /\ now' = now + 1
  /\ UNCHANGED <<blockMap, badBlocks, missingParents, currentBlockID,
                 currentPath, unspentOutputs, panicked, pending, ret,
                 lock, calls>>

Next ==
  \/ \E b \in BlockIDs : Submit(b)
  \/ \E b \in BlockIDs : Retry(b)
  \/ Tick

Spec == Init /\ [][Next]_vars

NoPanic == ~panicked

\* The blocks whose timestamp can be too far in the future of some clock.
FutureBlocks ==
  {b \in BlockIDs : Block(b).ts - GenesisTimestamp > FutureThreshold}

\* The guard of Retry(b): the sleep of a goroutine of block b is over.
RetryDue(b) ==
  ~panicked /\ pending[b] > 0 /\ now >= Block(b).ts - FutureThreshold

\* A step in which a goroutine's call of AcceptBlock(b) returns.
Retried(b) == pending[b] > 0 /\ pending'[b] = pending[b] - 1

\* The clock advances, and a goroutine whose sleep is over runs: weak
\* fairness of Retry(b), written with its guard for ENABLED and with the
\* change of pending that only a Retry(b) step makes.
SpecLive ==
  /\ Spec
  /\ WF_vars(Tick)
  /\ \A b \in FutureBlocks : []<>~RetryDue(b) \/ []<><<Retried(b)>>_vars

\* ------------------------------------------------- AcceptBlock, interleaved
\* The calls of the threads interleave between three steps of AcceptBlock:
\* the checks up to the size check, addBlockToTree, and the rest.
\* The blocks submitted here are accepted once their time has come.
ConcInputs == {1, 2, 3, 6, 7, 12}

Running(t) == calls[t].pc # "idle"

\* The checks returned c: an error ends the call, otherwise it goes on.
Started(t, b, c) ==
  IF c.err # "nil"
  THEN /\ Returned(Return(c.s, c.err, c.spawn))
       /\ UNCHANGED <<lock, calls>>
  ELSE /\ SetState(c.s)
       /\ calls' = [calls EXCEPT ![t] = [pc |-> "checked", b |-> b]]
       /\ lock' = IF t \in Callers THEN t ELSE lock
       /\ UNCHANGED ret

CallerStarted(t, b, c) ==
  /\ c.spawn => SumOver(pending, BlockIDs) < MaxPending
  /\ Started(t, b, c)
  /\ pending' = IF c.spawn THEN [pending EXCEPT ![b] = @ + 1] ELSE pending

\* A caller takes the lock and calls AcceptBlock(b).
CallerStart(t, b) ==
  /\ ~panicked
  /\ lock = "none"
  /\ Block(b).parent \in DOMAIN blockMap
  /\ CallerStarted(t, b, AcceptBlockChecks(State, b, now))
  /\ UNCHANGED now

GoroutineStarted(b, c) ==
  /\ Started("goroutine", b, c)
  /\ pending' = [pending EXCEPT ![b] = @ - 1 + (IF c.spawn THEN 1 ELSE 0)]

\* A goroutine started by validateHeader wakes up and calls AcceptBlock(b);
\* s.Lock() is commented out.
GoroutineStart(b) ==
  /\ ~panicked
  /\ ~Running("goroutine")
  /\ pending[b] > 0
  /\ now >= Block(b).ts - FutureThreshold
  /\ GoroutineStarted(b, AcceptBlockChecks(State, b, now))
  /\ UNCHANGED now

\* addBlockToTree
Insert(t) ==
  /\ ~panicked
  /\ calls[t].pc = "checked"
  /\ SetState(AcceptBlockInsert(State, calls[t].b))
  /\ calls' = [calls EXCEPT ![t].pc = "inserted"]
  /\ UNCHANGED <<now, pending, ret, lock>>

\* heavierFork, forkBlockchain, notifySubscribers and the return; a caller
\* releases the lock.
Finish(t) ==
  /\ ~panicked
  /\ calls[t].pc = "inserted"
  /\ Returned(AcceptBlockInserted(State, calls[t].b))
  /\ calls' = [calls EXCEPT ![t] = Idle]
  /\ lock' = IF lock = t THEN "none" ELSE lock
  /\ UNCHANGED <<now, pending>>

NextConc ==
  \/ \E t \in Callers : \E b \in ConcInputs : CallerStart(t, b)
  \/ \E b \in ConcInputs : GoroutineStart(b)
  \/ \E t \in Threads : Insert(t)
  \/ \E t \in Threads : Finish(t)
  \/ Tick

SpecConc == Init /\ [][NextConc]_vars

\* ----------------------------------------------------------------- claims
\* What AcceptBlock(b) returns when called in the current state.
Call(b) == AcceptBlock(State, b, now)

\* The ledger part of a State value is the one the variables hold.
SameLedger(s) ==
  /\ s.currentBlockID = currentBlockID
  /\ s.currentPath = currentPath
  /\ s.unspentOutputs = unspentOutputs

\* C1: a call whose reorg fails returns with currentBlockID, currentPath and
\* unspentOutputs as they were before the call, and with empty rewound,
\* applied and output-diff lists.
C1_ReorgAtomicity ==
  \A b \in BlockIDs :
    Call(b).failed =>
      /\ SameLedger(Call(b).s)
      /\ Call(b).rewoundBlocks = <<>>
      /\ Call(b).appliedBlocks = <<>>
      /\ Call(b).outputDiffs = <<>>

\* A reorg to the branch of block 4 failed after blocks 2 and 1 had been
\* rewound and block 3 replayed; the tip is block 2 again.
C1_Witness ==
  /\ ret.failed
  /\ currentBlockID = 2
  /\ 4 \in badBlocks
  /\ 3 \in DOMAIN blockMap

\* C2: a call whose reorg was rolled back returns a non-nil err.
C2_ErrorPropagated == ret.failed => ret.err # "nil"

\* C3: no ConsensusChange is delivered during a call whose reorg was rolled
\* back.
C3_NoChangeOnFailedReorg == ret.failed => ret.notified = <<>>

\* C4: currentPath is defined exactly on 0..Height, ends in currentBlockID
\* and follows parent links down to the genesis block.
C4_PathConnected ==
  /\ currentBlockID \in DOMAIN blockMap
  /\ DOMAIN currentPath = 0..Height(State)
  /\ currentPath[Height(State)] = currentBlockID
  /\ \A h \in 1..Height(State) : Block(currentPath[h]).parent = currentPath[h - 1]

\* A reorg rewound two blocks and applied three; a failed reorg was rolled
\* back over two rewound blocks.
C4_Witness ==
  \/ Len(ret.rewoundBlocks) = 2 /\ Len(ret.appliedBlocks) = 3 /\ Height(State) = 3
  \/ C1_Witness

\* Cumulative work of node n against that of the tip: 1/Depth.
WorkAtMostTip(n) == blockMap[n].Depth >= Depth(State)

\* 1/Depth(n) - 1/Depth(tip) >= (1/Target(tip)) * SurpassThreshold
ExceedsByThreshold(n) ==
  SurpassThresholdDen * Depth(State) * currentBlockNode(State).Target
    >= blockMap[n].Depth
         * (SurpassThresholdDen * currentBlockNode(State).Target
            + SurpassThresholdNum * Depth(State))

\* 1/Depth(n) - 1/Depth(tip) > (1/Target(tip)) * SurpassThreshold
ExceedsByMoreThanThreshold(n) ==
  SurpassThresholdDen * Depth(State) * currentBlockNode(State).Target
    > blockMap[n].Depth
        * (SurpassThresholdDen * currentBlockNode(State).Target
           + SurpassThresholdNum * Depth(State))

\* C5 (as stated): the tip's cumulative work is at least that of every node,
\* or no node's work exceeds the tip's by at least 5/100 of the tip's
\* single-block work.
C5_HeaviestWithHysteresis ==
  \/ \A n \in DOMAIN blockMap : WorkAtMostTip(n)
  \/ \A n \in DOMAIN blockMap : ~ExceedsByThreshold(n)

\* C5 (amended): the tip's cumulative work is at least that of every node, or
\* no node's work exceeds the tip's by more than 5/100 of the tip's
\* single-block work.
C5_HeaviestWithStrictHysteresis ==
  \/ \A n \in DOMAIN blockMap : WorkAtMostTip(n)
  \/ \A n \in DOMAIN blockMap : ~ExceedsByMoreThanThreshold(n)

\* A call returned nil and left a node heavier than the tip whose excess is
\* exactly the threshold: heavierFork refused it.
C5_Witness ==
  /\ ret.err = "nil"
  /\ \E n \in DOMAIN blockMap :
       /\ ~WorkAtMostTip(n)
       /\ ExceedsByThreshold(n)
       /\ ~ExceedsByMoreThanThreshold(n)

\* b is a bad block or has a bad block among its ancestors.
RECURSIVE DescendsFromBad(_)
DescendsFromBad(b) ==
  /\ b \in BlockIDs
  /\ \/ b \in badBlocks
     \/ DescendsFromBad(Block(b).parent)

C6_State ==
  /\ DOMAIN blockMap \cap badBlocks = {}
  /\ \A b \in BlockIDs :
       DescendsFromBad(b) => Call(b).err # "nil" /\ SameLedger(Call(b).s)

\* C6: blockMap and badBlocks are disjoint, an id in badBlocks stays there,
\* and a bad block or a descendant of one is rejected without a change of
\* currentBlockID, currentPath or unspentOutputs.
C6_BadBlockClosure == [][badBlocks \subseteq badBlocks']_vars /\ []C6_State

\* The child of an invalidated block was submitted and staged as an orphan.
C6_Witness ==
  /\ 4 \in badBlocks
  /\ 4 \in DOMAIN missingParents
  /\ 5 \in missingParents[4]
  /\ ret.err \in {"UnknownOrphanErr", "KnownOrphanErr"}

\* C7: a parent with a staged child in missingParents is not in blockMap.
C7_OrphanParentsUnknown ==
  \A p \in DOMAIN missingParents :
    missingParents[p] # {} => p \notin DOMAIN blockMap

\* The engine state, ledger and tree and pools, of a State value is unchanged.
SameTree(s) == s.blockMap = blockMap /\ s.badBlocks = badBlocks

\* C8 as stated: a call that returns BlockKnown, KnownOrphan or UnknownOrphan
\* leaves the whole state unchanged.
C8_InformationalUnchanged ==
  [][ret'.err \in {"BlockKnownErr", "KnownOrphanErr", "UnknownOrphanErr"} =>
       UNCHANGED <<blockMap, badBlocks, missingParents, currentBlockID,
                   currentPath, unspentOutputs>>]_vars

\* C8 amended: BlockKnown and KnownOrphan leave the whole state unchanged;
\* UnknownOrphan adds the block under its parent in missingParents and
\* changes nothing else.
C8_InformationalEffect ==
  \A b \in BlockIDs :
    /\ Call(b).err \in {"BlockKnownErr", "KnownOrphanErr"} => Call(b).s = State
    /\ Call(b).err = "UnknownOrphanErr" =>
         /\ SameLedger(Call(b).s)
         /\ SameTree(Call(b).s)
         /\ Call(b).s.panicked = panicked
         /\ Block(b).parent \in DOMAIN Call(b).s.missingParents
         /\ \A p \in DOMAIN Call(b).s.missingParents :
              Call(b).s.missingParents[p] =
                (IF p \in DOMAIN missingParents THEN missingParents[p] ELSE {})
                  \cup (IF p = Block(b).parent THEN {b} ELSE {})

\* An orphan was staged, and at another time was known already.
C8_Witness ==
  /\ ret.err \in {"UnknownOrphanErr", "KnownOrphanErr"}
  /\ StagedOrphans(missingParents) # {}
  /\ \E b \in BlockIDs : Call(b).err = "BlockKnownErr"

\* C9: a call that returns no error delivers exactly one ConsensusChange,
\* holding the diffs of the blocks the call rewound and applied.
C9_OneChangePerCall ==
  ret.err = "nil" =>
    /\ Len(ret.notified) = 1
    /\ Len(ret.notified[1].InvertedBlocks) = Len(ret.rewoundBlocks)
    /\ \A i \in 1..Len(ret.appliedBlocks) :
         ret.notified[1].AppliedBlocks[i].CatalystBlock = ret.appliedBlocks[i]
    /\ Len(ret.notified[1].AppliedBlocks) = Len(ret.appliedBlocks)

\* C10: no two executions of AcceptBlock overlap: at most one thread is
\* inside AcceptBlock.
C10_SingleWriter ==
  \A t \in Threads : \A u \in Threads : Running(t) /\ Running(u) => t = u

\* The ledger after the transactions txs[i], ..., txs[Len(txs)] are applied
\* to the ledger u, each spending its input and creating its output.
RECURSIVE LedgerAfterTxs(_, _, _)
LedgerAfterTxs(u, txs, i) ==
  IF i > Len(txs) THEN u
  ELSE LedgerAfterTxs((u \ {TxTable[txs[i]].in}) \cup {OutputID(txs[i])}, txs, i + 1)

\* The ledger after the blocks currentPath[1..h] are applied, in height
\* order, to the genesis ledger: the transactions, then the subsidy output.
RECURSIVE ReplayLedger(_)
ReplayLedger(h) ==
  IF h = 0 THEN {SubsidyID(GenesisID)}
  ELSE LedgerAfterTxs(ReplayLedger(h - 1), Block(currentPath[h]).txs, 1)
         \cup {SubsidyID(currentPath[h])}

\* integrateBlock of a new child b of the tip, then invertRecentBlock.
IntegratedChild(b) ==
  integrateBlock(addBlockToTree(State, currentBlockID, b), b)

\* C11: unspentOutputs is the replay of currentPath[1..tip] from the genesis
\* ledger, and integrateBlock followed by invertRecentBlock restores
\* unspentOutputs.
C11_LedgerIsReplay ==
  /\ unspentOutputs = ReplayLedger(Height(State))
  /\ \A b \in BlockIDs :
       (b \notin DOMAIN blockMap /\ Block(b).parent = currentBlockID
          /\ IntegratedChild(b).err = "nil")
         => invertRecentBlock(IntegratedChild(b).s).s.unspentOutputs = unspentOutputs

\* A reorg to a branch that spends other outputs was made, after an earlier
\* reorg had been rolled back.
C11_Witness ==
  /\ Len(ret.rewoundBlocks) = 2
  /\ Len(ret.appliedBlocks) = 3
  /\ 4 \in badBlocks
  /\ OutputID(4) \in unspentOutputs

\* b is staged as an orphan under its parent.
Staged(s, b) ==
  /\ Block(b).parent \in DOMAIN s.missingParents
  /\ b \in s.missingParents[Block(b).parent]

OrphanErrs == {"UnknownOrphanErr", "KnownOrphanErr"}

C13_DeferredRetry ==
  /\ \A b \in BlockIDs : pending[b] > 0 => b \in FutureBlocks
  /\ \A b \in FutureBlocks :
       (pending[b] > 0) ~> (pending[b] = 0 /\ b \in DOMAIN blockMap)
  /\ [][\A b \in BlockIDs :
          Retried(b) =>
            /\ ret'.err # "FutureBlockErr"
            /\ ret'.err \in {"nil", "BlockKnownErr"}
            /\ b \in DOMAIN blockMap']_vars

\* The goroutine of block 12 is due, and its call accepts the block.
C13_Witness ==
  /\ pending[12] > 0
  /\ now >= Block(12).ts - FutureThreshold
  /\ 12 \notin DOMAIN blockMap
  /\ Call(12).err = "nil"
  /\ 12 \in DOMAIN Call(12).s.blockMap

\* The sequence w with v put before its first element larger than v.
RECURSIVE InsertSorted(_, _)
InsertSorted(w, v) ==
  IF w = <<>> THEN <<v>>
  ELSE IF v <= Head(w) THEN <<v>> \o w
  ELSE <<Head(w)>> \o InsertSorted(Tail(w), v)

\* The window w, in ascending order.
RECURSIVE SortedWindow(_)
SortedWindow(w) ==
  IF w = <<>> THEN <<>> ELSE InsertSorted(SortedWindow(Tail(w)), Head(w))

\* The median of a window: index MedianTimestampWindow/2, counted from 0.
MedianOf(w) == SortedWindow(w)[MedianTimestampWindow \div 2 + 1]

RECURSIVE CommonAncestor(_)
CommonAncestor(n) ==
  IF \E h \in DOMAIN currentPath : currentPath[h] = n THEN n
  ELSE CommonAncestor(Block(n).parent)

\* The blocks from the child of block a up to its descendant n, ascending.
RECURSIVE BranchAbove(_, _)
BranchAbove(a, n) ==
  IF n = a THEN <<>> ELSE Append(BranchAbove(a, Block(n).parent), n)

\* The blocks of currentPath from the tip down to the one above height h.
OldChainAbove(h) ==
  [i \in 1..(Height(State) - h) |-> currentPath[Height(State) - i + 1]]

\* The output diffs of the inversion of the transactions txs[1..i], last
\* transaction first.
RECURSIVE InverseTxDiffs(_, _)
InverseTxDiffs(txs, i) ==
  IF i = 0 THEN <<>>
  ELSE << [New |-> FALSE, ID |-> OutputID(txs[i])],
          [New |-> TRUE, ID |-> TxTable[txs[i]].in] >> \o InverseTxDiffs(txs, i - 1)

\* The output diffs of the blocks bs[i..Len(bs)] being rewound, in order.
RECURSIVE RewindDiffs(_, _)
RewindDiffs(bs, i) ==
  IF i > Len(bs) THEN <<>>
  ELSE <<[New |-> FALSE, ID |-> SubsidyID(bs[i])]>>
         \o InverseTxDiffs(Block(bs[i]).txs, Len(Block(bs[i]).txs))
         \o RewindDiffs(bs, i + 1)

\* The output diffs of the transactions txs[i..Len(txs)] being applied.
RECURSIVE TxDiffs(_, _)
TxDiffs(txs, i) ==
  IF i > Len(txs) THEN <<>>
  ELSE << [New |-> FALSE, ID |-> TxTable[txs[i]].in],
          [New |-> TRUE, ID |-> OutputID(txs[i])] >> \o TxDiffs(txs, i + 1)

\* The output diffs of the blocks bs[i..Len(bs)] being replayed, in order.
RECURSIVE ReplayDiffs(_, _)
ReplayDiffs(bs, i) ==
  IF i > Len(bs) THEN <<>>
  ELSE TxDiffs(Block(bs[i]).txs, 1) \o <<[New |-> TRUE, ID |-> SubsidyID(bs[i])]>>
         \o ReplayDiffs(bs, i + 1)

\* The call r of AcceptBlock(b) switched to the branch of b.
Switched(r) == r.forked /\ ~r.failed /\ r.err = "nil"

\* The results of the call r of AcceptBlock(b), a being the common ancestor.
ReorgResult(r, b, a) ==
  /\ r.rewoundBlocks = OldChainAbove(r.s.blockMap[a].Height)
  /\ r.appliedBlocks = BranchAbove(a, b)
  /\ r.outputDiffs = RewindDiffs(r.rewoundBlocks, 1) \o ReplayDiffs(r.appliedBlocks, 1)
  /\ r.s.currentBlockID = b
  /\ DOMAIN r.s.currentPath = 0..r.s.blockMap[b].Height
  /\ \A h \in 0..r.s.blockMap[a].Height : r.s.currentPath[h] = currentPath[h]
  /\ \A j \in 1..Len(r.appliedBlocks) :
       r.s.currentPath[r.s.blockMap[a].Height + j] = r.appliedBlocks[j]

\* C15: a call that switches to the branch of block b returns as rewound the
\* old canonical blocks above the common ancestor from the old tip downward,
\* as applied the branch from the ancestor's child up to b, as output diffs
\* those of the rewinds followed by those of the replays, and leaves b as
\* the tip with currentPath above the ancestor equal to applied.
C15_ReorgResult ==
  \A b \in BlockIDs :
    Switched(Call(b)) => ReorgResult(Call(b), b, CommonAncestor(Block(b).parent))

\* The call switched from the chain 1, 2 to the chain 3, 6, 7.
C15_Witness ==
  /\ ret.forked /\ ~ret.failed
  /\ ret.rewoundBlocks = <<2, 1>>
  /\ ret.appliedBlocks = <<3, 6, 7>>
  /\ currentBlockID = 7

\* Whether the transactions txs[i..Len(txs)] are valid one after the other
\* on the ledger u.
RECURSIVE TxsValid(_, _, _)
TxsValid(u, txs, i) ==
  \/ i > Len(txs)
  \/ /\ TxTable[txs[i]].in \in u
     /\ TxsValid((u \ {TxTable[txs[i]].in}) \cup {OutputID(txs[i])}, txs, i + 1)

\* The first block of bs[i..Len(bs)] that holds an invalid transaction when
\* the blocks are applied in order to the ledger u; NoBlock if there is none.
RECURSIVE FirstInvalid(_, _, _)
FirstInvalid(u, bs, i) ==
  IF i > Len(bs) THEN NoBlock
  ELSE IF ~TxsValid(u, Block(bs[i]).txs, 1) THEN bs[i]
  ELSE FirstInvalid(LedgerAfterTxs(u, Block(bs[i]).txs, 1) \cup {SubsidyID(bs[i])},
                    bs, i + 1)

\* Block i is block n or an ancestor of it.
RECURSIVE IsAncestorOrSelf(_, _)
IsAncestorOrSelf(i, n) ==
  \/ n = i
  \/ n \in BlockIDs /\ IsAncestorOrSelf(i, Block(n).parent)

\* The nodes of the set tree that are block i or descend from it.
Subtree(tree, i) == {n \in tree : IsAncestorOrSelf(i, n)}

\* The block at which the replay of the branch of b fails.
FailingBlock(b) ==
  FirstInvalid(ReplayLedger(blockMap[CommonAncestor(Block(b).parent)].Height),
               BranchAbove(CommonAncestor(Block(b).parent), b), 1)

\* The call r of AcceptBlock(b) invalidated block i with its subtree, and
\* nothing else.
InvalidatedFrom(r, b, i) ==
  /\ i # NoBlock
  /\ r.s.badBlocks = badBlocks \cup Subtree(DOMAIN blockMap \cup {b}, i)
  /\ DOMAIN r.s.blockMap = (DOMAIN blockMap \cup {b}) \ Subtree(DOMAIN blockMap \cup {b}, i)
  /\ r.s.badBlocks \cap DOMAIN r.s.blockMap = {}

\* C16: a call whose replay fails at block i returns with i and the nodes
\* that descend from i in badBlocks and out of blockMap, and with every other
\* node still in blockMap and not in badBlocks.
C16_InvalidationExtent ==
  \A b \in BlockIDs : Call(b).failed => InvalidatedFrom(Call(b), b, FailingBlock(b))

\* The replay failed at block 4 while its child 5 was in the tree: both are
\* bad, and the replayed block 3 and the old chain 1, 2 are in blockMap.
C16_Witness ==
  /\ ret.failed
  /\ {4, 5} \subseteq badBlocks
  /\ {1, 2, 3} \subseteq DOMAIN blockMap
  /\ currentBlockID = 2

\* The errors of header and size validation: those that mark the block bad
\* and those that do not.
PermanentErrs ==
  {"timestamp invalid for being in the past",
   "merkle root does not match transactions sent."}

TransientErrs ==
  {"block does not meet target", "FutureBlockErr",
   "Block is too large, will not be accepted."}

\* The call r of AcceptBlock(b) changed nothing but badBlocks.
OnlyBadBlocksMayChange(r) ==
  /\ r.s.blockMap = blockMap
  /\ r.s.missingParents = missingParents
  /\ SameLedger(r.s)

\* C17: a call rejected in header or size validation changes neither
\* blockMap, missingParents, currentPath nor unspentOutputs; badBlocks gains
\* the block's id, and the block is rejected as known invalid from then on,
\* when the timestamp is too early or the merkle root does not match;
\* badBlocks is unchanged when the target is not met, the block is in the
\* future or too large.
C17_HeaderRejection ==
  \A b \in BlockIDs :
    /\ Call(b).err \in PermanentErrs =>
         /\ OnlyBadBlocksMayChange(Call(b))
         /\ b \notin badBlocks
         /\ Call(b).s.badBlocks = badBlocks \cup {b}
         /\ AcceptBlock(Call(b).s, b, now).err = "block is known to be invalid"
         /\ ~Call(b).spawn
    /\ Call(b).err \in TransientErrs =>
         /\ OnlyBadBlocksMayChange(Call(b))
         /\ Call(b).s.badBlocks = badBlocks
         /\ Call(b).spawn = (Call(b).err = "FutureBlockErr")

\* Block 9 was marked bad for its merkle root, and block 11 has just been
\* rejected for its size and is not bad.
C17_Witness ==
  /\ 9 \in badBlocks
  /\ 11 \notin badBlocks
  /\ ret.err = "Block is too large, will not be accepted."
  /\ Call(9).err = "block is known to be invalid"

\* The ancestor of node b of blockMap at height h, following parent ids.
RECURSIVE AncestorAt(_, _)
AncestorAt(b, h) ==
  IF blockMap[b].Height <= h THEN b ELSE AncestorAt(Block(b).parent, h)

\* The path from the genesis block to node b.
OwnPath(b) == [h \in 0..blockMap[b].Height |-> AncestorAt(b, h)]

\* The target of node b computed by childTarget with b's own ancestry in the
\* place of the current path.
OwnTarget(b) ==
  childTarget([currentPath |-> OwnPath(b)], blockMap[Block(b).parent],
              blockMap[b].Height, Block(b).ts)

\* C18: the target of every node of the tree is the one computed from the
\* timestamp of the node's own ancestor at height
\* Height - min(Height, TargetWindow), whichever chain was the current path
\* when the node was inserted, and computing it never fails.
C18_AnchorIsOwnAncestor ==
  /\ ~panicked
  /\ \A b \in DOMAIN blockMap \ {GenesisID} :
       blockMap[b].Target = OwnTarget(b)

\* Block b passes the checks of AcceptBlock in the current state, its parent
\* is the current tip and its transactions are valid on the current ledger.
ExtendsTip(b) ==
  /\ ~panicked
  /\ AcceptBlockChecks(State, b, now).err = "nil"
  /\ Block(b).parent = currentBlockID
  /\ TxsValid(unspentOutputs, Block(b).txs, 1)

\* C19: AcceptBlock of a block that passes header and size validation, whose
\* parent is the current tip and whose transactions are all valid, makes the
\* block the new tip: the fork is heavier, nothing is rewound, the block is
\* the one applied, the height grows by one and no error is returned.
C19_ExtendingTip ==
  \A b \in BlockIDs :
    ExtendsTip(b) =>
      /\ heavierFork(addBlockToTree(State, currentBlockID, b), b)
      /\ Call(b).err = "nil"
      /\ Call(b).forked
      /\ ~Call(b).failed
      /\ Call(b).rewoundBlocks = <<>>
      /\ Call(b).appliedBlocks = <<b>>
      /\ Call(b).s.currentBlockID = b
      /\ Height(Call(b).s) = Height(State) + 1
      /\ Call(b).s.currentPath = MapSet(currentPath, Height(State) + 1, b)
      /\ ~Call(b).s.panicked

\* Block 2 has just been accepted on top of the tip 1.
C19_Witness ==
  /\ currentBlockID = 2
  /\ currentPath = [h \in 0..2 |-> h]
  /\ ret.err = "nil"
  /\ ret.rewoundBlocks = <<>>
  /\ ret.appliedBlocks = <<2>>
  /\ ret.forked

\* A node of depth d has more cumulative work than the current tip plus
\* SurpassThreshold of the tip's single-block work:
\* 1/d > 1/Depth(tip) + (1/Target(tip)) * SurpassThreshold
HeavierThanTip(d) ==
  SurpassThresholdDen * Depth(State) * currentBlockNode(State).Target
    > d * (SurpassThresholdDen * currentBlockNode(State).Target
           + SurpassThresholdNum * Depth(State))

\* The call r of AcceptBlock(b) inserted b under its parent.
InsertedUnderParent(r, b) ==
  /\ b \notin DOMAIN blockMap
  /\ b \in DOMAIN r.s.blockMap
  /\ Block(b).parent \in DOMAIN r.s.blockMap
  /\ r.s.blockMap[Block(b).parent].Children
       = Append(blockMap[Block(b).parent].Children, b)

\* A step does not lower the cumulative work (1/Depth) of the tip.
TipWorkNotLess ==
  blockMap'[currentBlockID'].Depth <= blockMap[currentBlockID].Depth

\* C20: a call changes currentBlockID only if the work of the node it
\* inserted exceeds the tip's work by more than 5/100 of the tip's
\* single-block work; a call that inserts a node that does not, adds it to
\* blockMap and to its parent's children and leaves currentBlockID,
\* currentPath and unspentOutputs as they were; and no step lowers the
\* cumulative work of the tip.
C20_FirstSeenWins ==
  /\ [](\A b \in BlockIDs :
          /\ Call(b).s.currentBlockID # currentBlockID =>
               /\ Call(b).s.currentBlockID = b
               /\ InsertedUnderParent(Call(b), b)
               /\ HeavierThanTip(Call(b).s.blockMap[b].Depth)
          /\ (Call(b).err = "nil" /\ ~Call(b).forked) =>
               /\ InsertedUnderParent(Call(b), b)
               /\ ~HeavierThanTip(Call(b).s.blockMap[b].Depth)
               /\ SameLedger(Call(b).s))
  /\ [][TipWorkNotLess]_vars

\* Block 6 has just been inserted beside the tip 2, which it does not
\* outweigh by more than the threshold, and the tip is unchanged.
C20_Witness ==
  /\ currentBlockID = 2
  /\ ret.err = "nil"
  /\ ~ret.forked
  /\ 6 \in DOMAIN blockMap
  /\ blockMap[6].Depth < Depth(State)
  /\ ~HeavierThanTip(blockMap[6].Depth)

====
